---- MODULE Spec2Model ----
(***************************************************************************)
(* A model of the bedlam node (src/main.rs, src/node.rs, src/messages.rs): *)
(* a Maelstrom node that answers echo / generate / broadcast / read /      *)
(* topology requests and gossips its broadcast set to its neighbours on    *)
(* every timer tick.                                                       *)
(*                                                                         *)
(* The handlers of Node are operators from a Node value (and the event)    *)
(* to the Node value after the handler and the lines it wrote, so that the *)
(* single-node specification Spec and the cluster specification            *)
(* ClusterSpec run the same code.                                          *)
(***************************************************************************)
EXTENDS Integers, Sequences, FiniteSets, TLC

\* ------------------------------------------------------------------ bounds
MaxValue == 2          \* broadcast values are 1..MaxValue
MaxMsgId == 4          \* no request or tick is processed once uniq_msg_id reached it
MaxClusterValue == 1   \* the values broadcast in the cluster are 1..MaxClusterValue
MaxLines == 3          \* the reader reads at most MaxLines lines from stdin
MaxTicks == 2          \* the ticker puts at most MaxTicks Timer events on the bus

Values == 1..MaxValue
NodeIds == {"n1", "n2", "n3"}
Clients == {"c1"}

\* ------------------------------------------------------- Option<usize>
None == <<>>
Some(x) == <<x>>

\* ------------------------------------------------------------ helpers
Range(s) == {s[i] : i \in 1..Len(s)}

\* every order in which iterating a HashSet holding S can yield its members
IterOrders(S) == {s \in [1..Cardinality(S) -> S] : Range(s) = S}

\* HashMap with no entries
EmptyMap == [k \in {} |-> {}]

\* ------------------------------------------------------------ messages
Message(src, dst, msg_id, in_reply_to, payload) ==
  [src |-> src, dest |-> dst,
   body |-> [msg_id |-> msg_id, in_reply_to |-> in_reply_to, payload |-> payload]]

InitMsg(node_id, node_ids) == [type |-> "init", node_id |-> node_id, node_ids |-> node_ids]
InitOk == [type |-> "init_ok"]
Echo(echo) == [type |-> "echo", echo |-> echo]
EchoOk(echo) == [type |-> "echo_ok", echo |-> echo.echo]
Generate == [type |-> "generate"]
GenerateOk(id) == [type |-> "generate_ok", id |-> id]
Broadcast(value) == [type |-> "broadcast", value |-> value]
BroadcastOk == [type |-> "broadcast_ok"]
Read == [type |-> "read"]
ReadOk(messages) == [type |-> "read_ok", messages |-> messages]
Topology(topology) == [type |-> "topology", topology |-> topology]
TopologyOk == [type |-> "topology_ok"]
Gossip(messages) == [type |-> "gossip", messages |-> messages]

External(message) == [kind |-> "External", message |-> message]
Internal(payload) == [kind |-> "Internal", payload |-> payload]
Timer == "Timer"
Eof == "Eof"

\* ---------------------------------------------------------------- Node
\* Node::new; `state` is the position of main's thread: before
\* initialize() returned, inside run()'s loop, after run() returned, or
\* unwound by a panic
new ==
  [state |-> "Uninitialized",
   node_id |-> "",
   cluster |-> <<>>,
   topology |-> EmptyMap,
   broadcast_ids |-> {},
   uniq_msg_id |-> 0,
   known_ids |-> EmptyMap]

\* what a handler leaves behind: the node and the lines it wrote to stdout
Done(self, out) == [self |-> self, out |-> out]
Panic(self, out) == [self |-> [self EXCEPT !.state = "Aborted"], out |-> out]

\* extend written as an assignment: the set is replaced, not merged
extend_replacing(set, messages) == Range(messages)

\* HashSet::insert / HashSet::extend
insert(set, value) == set \cup {value}
extend(set, messages) == set \cup Range(messages)

\* send_to without the increment of uniq_msg_id
send_to_same_id(self, dst, in_reply_to, payload) ==
  Done(self,
       <<Message(self.node_id, dst, Some(self.uniq_msg_id), in_reply_to, payload)>>)

\* send_to dropping the request's msg_id
send_to_uncorrelated(self, dst, in_reply_to, payload) ==
  Done([self EXCEPT !.uniq_msg_id = @ + 1],
       <<Message(self.node_id, dst, Some(self.uniq_msg_id), None, payload)>>)

\* Node::send_to
send_to(self, dst, in_reply_to, payload) ==
  Done([self EXCEPT !.uniq_msg_id = @ + 1],
       <<Message(self.node_id, dst, Some(self.uniq_msg_id), in_reply_to, payload)>>)

\* initialize answering under the id the node had before the handshake
initialize_old_src(self, event) ==
  IF event.kind = "External" /\ event.message.body.payload.type = "init"
  THEN LET message == event.message
           init == message.body.payload
       IN Done([self EXCEPT !.state = "Initialized",
                            !.uniq_msg_id = @ + 1,
                            !.node_id = init.node_id,
                            !.cluster = init.node_ids,
                            !.topology = [k \in {init.node_id} |-> init.node_ids],
                            !.known_ids = [k \in {init.node_id} |-> {}]],
               <<Message(self.node_id, message.src, Some(self.uniq_msg_id),
                         message.body.msg_id, InitOk)>>)
  ELSE Panic(self, <<>>)

\* Node::initialize
initialize(self, event) ==
  IF event.kind = "External" /\ event.message.body.payload.type = "init"
  THEN LET message == event.message
           init == message.body.payload
       IN Done([self EXCEPT !.state = "Initialized",
                            !.uniq_msg_id = @ + 1,
                            !.node_id = init.node_id,
                            !.cluster = init.node_ids,
                            !.topology = [k \in {init.node_id} |-> init.node_ids],
                            !.known_ids = [k \in {init.node_id} |-> {}]],
               <<Message(init.node_id, message.src, Some(self.uniq_msg_id),
                         message.body.msg_id, InitOk)>>)
  ELSE Panic(self, <<>>)

\* the inner filter without the known_ids test: every value goes to every neighbour
pending_unfiltered(self, dest, order) == order

\* the inner filter of the Timer arm: the members of broadcast_ids, in
\* iteration order, that known_ids[dest] does not contain
pending(self, dest, order) ==
  SelectSeq(order, LAMBDA v : ~(v \in self.known_ids[dest]))

\* the filter_map of the Timer arm over the neighbour list `dests`
RECURSIVE gossip_targets(_, _, _)
gossip_targets(self, dests, order) ==
  IF dests = <<>> THEN <<>>
  ELSE LET messages == pending(self, Head(dests), order)
           rest == gossip_targets(self, Tail(dests), order)
       IN IF messages = <<>> THEN rest
          ELSE <<[dest |-> Head(dests), messages |-> messages]>> \o rest

\* the for loop of the Timer arm: one send_to per target
RECURSIVE send_gossip(_, _)
send_gossip(self, targets) ==
  IF targets = <<>> THEN Done(self, <<>>)
  ELSE LET first == send_to(self, Head(targets).dest, None, Gossip(Head(targets).messages))
           rest == send_gossip(first.self, Tail(targets))
       IN Done(rest.self, first.out \o rest.out)

\* the neighbours the filter_map closure returns for: it panics at the first
\* one that has no known_ids entry
RECURSIVE reached(_, _)
reached(self, dests) ==
  IF dests = <<>> \/ ~(Head(dests) \in DOMAIN self.known_ids) THEN <<>>
  ELSE <<Head(dests)>> \o reached(self, Tail(dests))

\* the gossip_targets the Timer arm computes, up to its panic if it panics
computed_targets(self, order) ==
  IF self.broadcast_ids = {} \/ ~(self.node_id \in DOMAIN self.topology) THEN <<>>
  ELSE gossip_targets(self, reached(self, self.topology[self.node_id]), order)

\* run, InternalPayload::Timer; `order` is the iteration order of broadcast_ids
RECURSIVE mark_known(_, _)
mark_known(known_ids, targets) ==
  IF targets = <<>> THEN known_ids
  ELSE mark_known([known_ids EXCEPT ![Head(targets).dest] = @ \cup Range(Head(targets).messages)],
                  Tail(targets))

\* the Timer arm recording what it sends as known to the recipient
run_Timer_marking(self, order) ==
  IF self.broadcast_ids = {} THEN Done(self, <<>>)
  ELSE IF ~(self.node_id \in DOMAIN self.topology) THEN Panic(self, <<>>)
  ELSE IF reached(self, self.topology[self.node_id]) # self.topology[self.node_id]
       THEN Panic(self, <<>>)
       ELSE LET sent == send_gossip(self, computed_targets(self, order))
            IN Done([sent.self EXCEPT !.known_ids =
                                         mark_known(@, computed_targets(self, order))],
                    sent.out)

\* run, InternalPayload::Timer
run_Timer(self, order) ==
  IF self.broadcast_ids = {} THEN Done(self, <<>>)
  ELSE IF ~(self.node_id \in DOMAIN self.topology) THEN Panic(self, <<>>)
  ELSE IF reached(self, self.topology[self.node_id]) # self.topology[self.node_id]
       THEN Panic(self, <<>>)
       ELSE send_gossip(self, computed_targets(self, order))

\* the Eof arm carrying on with the loop
run_Eof_continue(self) == Done(self, <<>>)

\* run, InternalPayload::Eof
run_Eof(self) == Done([self EXCEPT !.state = "Terminated"], <<>>)

\* the Init arm taking a second init as a no-op
run_Init_ignored(self, message) == Done(self, <<>>)

\* run, ExternalPayload::Init
run_Init(self, message) == Panic(self, <<>>)

\* run, ExternalPayload::Echo
run_Echo(self, message) ==
  send_to(self, message.src, message.body.msg_id, EchoOk(message.body.payload))

\* Display of a String: its characters, for the ids the model uses
Chars(string) ==
  CASE string = "" -> <<>>
    [] string = "n1" -> <<"n", "1">>
    [] string = "n2" -> <<"n", "2">>
    [] string = "n3" -> <<"n", "3">>

\* Display of a usize: its decimal digits
RECURSIVE Digits(_)
Digits(n) ==
  LET digit == <<"0", "1", "2", "3", "4", "5", "6", "7", "8", "9">>[(n % 10) + 1]
  IN IF n < 10 THEN <<digit>> ELSE Digits(n \div 10) \o <<digit>>

\* an id made of the counter alone
format_counter_only(node_id, uniq_msg_id) == Digits(uniq_msg_id)

\* format!("{}-{}", self.node_id, self.uniq_msg_id)
format(node_id, uniq_msg_id) == Chars(node_id) \o <<"-">> \o Digits(uniq_msg_id)

\* run, ExternalPayload::Generate
run_Generate(self, message) ==
  send_to(self, message.src, message.body.msg_id,
          GenerateOk(format(self.node_id, self.uniq_msg_id)))

\* the Broadcast arm answering without the insert
run_Broadcast_reply_only(self, message) ==
  send_to(self, message.src, message.body.msg_id, BroadcastOk)

\* run, ExternalPayload::Broadcast
run_Broadcast(self, message) ==
  LET sent == send_to(self, message.src, message.body.msg_id, BroadcastOk)
  IN Done([sent.self EXCEPT !.broadcast_ids = insert(@, message.body.payload.value)],
          sent.out)

\* the re-seeding without the filter on the node's own key
reseed_with_self(topology, node_id) == [k \in DOMAIN topology |-> {}]

\* the re-seeding of known_ids in the Topology arm
reseed(topology, node_id) == [k \in (DOMAIN topology) \ {node_id} |-> {}]

\* the Topology arm clearing the Broadcast Set along with known_ids
run_Topology_clearing(self, message) ==
  LET topology == message.body.payload.topology
  IN send_to([self EXCEPT !.topology = topology,
                          !.broadcast_ids = {},
                          !.known_ids = [k \in (DOMAIN topology) \ {self.node_id} |-> {}]],
             message.src, message.body.msg_id, TopologyOk)

\* the Topology arm clearing the Broadcast Set where it should clear known_ids
run_Topology_forgetting(self, message) ==
  LET topology == message.body.payload.topology
  IN send_to([self EXCEPT !.topology = topology,
                          !.broadcast_ids = {},
                          !.known_ids = [k \in (DOMAIN topology) \ {self.node_id} |->
                                           IF k \in DOMAIN self.known_ids
                                           THEN self.known_ids[k] ELSE {}]],
             message.src, message.body.msg_id, TopologyOk)

\* run, ExternalPayload::Topology
run_Topology(self, message) ==
  LET topology == message.body.payload.topology
  IN send_to([self EXCEPT !.topology = topology,
                          !.known_ids = reseed(topology, self.node_id)],
             message.src, message.body.msg_id, TopologyOk)

\* run, ExternalPayload::Read; `order` is the iteration order of broadcast_ids
run_Read(self, message, order) ==
  send_to(self, message.src, message.body.msg_id, ReadOk(order))

\* the Gossip arm recording the sender's values without merging them
run_Gossip_known_only(self, message) ==
  LET messages == message.body.payload.messages
  IN IF message.src \in DOMAIN self.known_ids
     THEN Done([self EXCEPT !.known_ids[message.src] = @ \cup Range(messages)], <<>>)
     ELSE Panic(self, <<>>)

\* run, ExternalPayload::Gossip
run_Gossip(self, message) ==
  LET messages == message.body.payload.messages
      merged == [self EXCEPT !.broadcast_ids = extend(@, messages)]
  IN IF message.src \in DOMAIN self.known_ids
     THEN Done([merged EXCEPT !.known_ids[message.src] = extend(@, messages)], <<>>)
     ELSE Panic(merged, <<>>)

\* an *_ok arm that acknowledges what it received
run_Ignored_acking(self, message) ==
  send_to(self, message.src, message.body.msg_id, message.body.payload)

\* run, the ignored *_ok arms
run_Ignored(self, message) == Done(self, <<>>)

\* one iteration of run: the match on the received event
run(self, ev, order) ==
  IF ev.kind = "Internal"
  THEN IF ev.payload = Timer THEN run_Timer(self, order) ELSE run_Eof(self)
  ELSE LET message == ev.message
           type == message.body.payload.type
       IN CASE type = "init" -> run_Init(self, message)
            [] type = "echo" -> run_Echo(self, message)
            [] type = "generate" -> run_Generate(self, message)
            [] type = "broadcast" -> run_Broadcast(self, message)
            [] type = "topology" -> run_Topology(self, message)
            [] type = "read" -> run_Read(self, message, order)
            [] type = "gossip" -> run_Gossip(self, message)
            [] OTHER -> run_Ignored(self, message)

\* ------------------------------------------------------------- inputs
Self == "n1"
\* the msg_id of a request: absent or present
ReqIds == {None, Some(1)}

Clusters == {<<"n1", "n2", "n3">>}

Line == [k \in NodeIds |-> CASE k = "n1" -> <<"n2">>
                             [] k = "n2" -> <<"n1", "n3">>
                             [] k = "n3" -> <<"n2">>]
Full == [k \in NodeIds |-> CASE k = "n1" -> <<"n2", "n3">>
                             [] k = "n2" -> <<"n1", "n3">>
                             [] k = "n3" -> <<"n1", "n2">>]
NoSelf == [k \in {"n2", "n3"} |-> IF k = "n2" THEN <<"n3">> ELSE <<"n2">>]
Dangling == [k \in {"n1"} |-> <<"n2">>]
Topologies == {Line, Full, NoSelf, Dangling}

Request(payload) == {Message(c, Self, id, None, payload) : c \in Clients, id \in ReqIds}
FromPeer(payload) == {Message(n, Self, Some(0), None, payload) : n \in NodeIds \ {Self}}
Reply(payload) == {Message("n2", Self, Some(0), Some(0), payload)}

InitMsgs == UNION {Request(InitMsg(Self, c)) : c \in Clusters}
EchoMsgs == Request(Echo("hi"))
GenerateMsgs == Request(Generate)
BroadcastMsgs == UNION {Request(Broadcast(v)) : v \in Values}
ReadMsgs == Request(Read)
TopologyMsgs == UNION {Request(Topology(t)) : t \in Topologies}
\* the `messages` of an incoming gossip: what a peer's Timer arm collects (any
\* subset of the values in any order), and lists that name a value twice
GossipLists ==
  UNION {IterOrders(S) : S \in SUBSET Values} \cup {<<v, v>> : v \in Values}
GossipMsgs == UNION {FromPeer(Gossip(m)) : m \in GossipLists}
OkMsgs == UNION {Reply(p) : p \in {InitOk, EchoOk(Echo("hi")), GenerateOk(format("n2", 0)),
                                   BroadcastOk, ReadOk(<<1>>), TopologyOk}}
FirstEvents == {External(m) : m \in InitMsgs \cup EchoMsgs \cup GossipMsgs}
                 \cup {Internal(Timer), Internal(Eof)}

\* -------------------------------------------------------------- state
VARIABLES
  node,             \* the Node value owned by main's thread
  output,           \* the lines the last event made the node write to stdout
  written,          \* the number of lines written to stdout so far
  event,            \* the event the node processed last
  receiver,         \* the function that received it: "initialize" or "run"
  from_broadcast,   \* history: the values of the broadcast requests processed
  from_gossip,      \* history: the values of the gossip messages processed
  heard,            \* history: per sender, the values it gossiped since the last topology
  targets,          \* the gossip_targets the last event computed, if it was a Tick
  backlog,          \* history: how many Ticks in a row the last events were, up to 2
  nodes,            \* cluster: the Node value of every process of the cluster
  net,              \* cluster: the gossip lines written and not yet delivered
  accepted,         \* cluster history: per node, the values it answered broadcast_ok for
  read_ok,          \* cluster: the node and messages of the last read_ok
  issued,           \* history: the generate_ok ids written, with the node and its counter
  bus,              \* the events in the channel, oldest first
  rx,               \* the Receiver: "open", or "dropped" once the Node is dropped
  pc,               \* where the main thread, the reader and the ticker are
  lines_read,       \* how many lines the reader has read from stdin
  ticks_sent,       \* how many Timer events the ticker has put on the bus
  enqueued,         \* history: every event a send put on the bus, in order
  processed         \* history: every event the node received from the bus, in order

nodeVars == <<node, output, written, event, receiver, from_broadcast, from_gossip, heard,
              targets, backlog>>
clusterVars == <<nodes, net, accepted, read_ok>>
idVars == <<issued>>
busVars == <<bus, rx, pc, lines_read, ticks_sent, enqueued, processed>>
vars == <<nodeVars, clusterVars, idVars, busVars>>

\* the cluster the harness starts, and the topology it sends to every node
ClusterIds == <<"n1", "n2", "n3">>
ClusterNodes == Range(ClusterIds)
ClusterTopology == Line
ClusterValues == 1..MaxClusterValue

NoEvent == [kind |-> "None"]

Init ==
  /\ node = new
  /\ output = <<>>
  /\ written = 0
  /\ event = NoEvent
  /\ receiver = "none"
  /\ from_broadcast = {}
  /\ from_gossip = {}
  /\ heard = [d \in NodeIds |-> {}]
  /\ targets = <<>>
  /\ backlog = 0
  /\ nodes = [n \in ClusterNodes |-> new]
  /\ net = {}
  /\ accepted = [n \in ClusterNodes |-> {}]
  /\ read_ok = [node |-> "", messages |-> <<>>]
  /\ issued = <<>>
  /\ bus = <<>>
  /\ rx = "open"
  /\ pc = [main |-> "node", io_loop |-> "reading", timer |-> "sleeping"]
  /\ lines_read = 0
  /\ ticks_sent = 0
  /\ enqueued = <<>>
  /\ processed = <<>>

\* one iteration of the receive loop: the handler's result becomes the state
Received(ev, result, computed) ==
  /\ receiver' = IF node.state = "Uninitialized" THEN "initialize" ELSE "run"
  /\ node' = result.self
  /\ output' = result.out
  /\ written' = written + Len(result.out)
  /\ event' = ev
  /\ targets' = computed
  /\ backlog' = IF ev.kind = "Internal" /\ ev.payload = Timer
                THEN IF backlog < 2 THEN backlog + 1 ELSE 2
                ELSE 0

Step(ev, result, computed) ==
  /\ Received(ev, result, computed)
  /\ UNCHANGED <<clusterVars, idVars, busVars>>

Running == node.state = "Initialized" /\ node.uniq_msg_id < MaxMsgId

Initialize ==
  /\ node.state = "Uninitialized"
  /\ \E ev \in FirstEvents : Step(ev, initialize(node, ev), <<>>)
  /\ UNCHANGED <<from_broadcast, from_gossip, heard>>

RecvTimer ==
  /\ Running
  /\ \E order \in IterOrders(node.broadcast_ids) :
       Step(Internal(Timer), run_Timer(node, order), computed_targets(node, order))
  /\ UNCHANGED <<from_broadcast, from_gossip, heard>>

RecvEof ==
  /\ Running
  /\ Step(Internal(Eof), run_Eof(node), <<>>)
  /\ UNCHANGED <<from_broadcast, from_gossip, heard>>

RecvInit ==
  /\ Running
  /\ \E m \in InitMsgs : Step(External(m), run_Init(node, m), <<>>)
  /\ UNCHANGED <<from_broadcast, from_gossip, heard>>

RecvEcho ==
  /\ Running
  /\ \E m \in EchoMsgs : Step(External(m), run_Echo(node, m), <<>>)
  /\ UNCHANGED <<from_broadcast, from_gossip, heard>>

RecvGenerate ==
  /\ Running
  /\ \E m \in GenerateMsgs : Step(External(m), run_Generate(node, m), <<>>)
  /\ UNCHANGED <<from_broadcast, from_gossip, heard>>

RecvBroadcast ==
  /\ Running
  /\ \E m \in BroadcastMsgs :
       /\ Step(External(m), run_Broadcast(node, m), <<>>)
       /\ from_broadcast' = from_broadcast \cup {m.body.payload.value}
  /\ UNCHANGED <<from_gossip, heard>>

RecvTopology ==
  /\ Running
  /\ \E m \in TopologyMsgs : Step(External(m), run_Topology(node, m), <<>>)
  /\ heard' = [d \in NodeIds |-> {}]
  /\ UNCHANGED <<from_broadcast, from_gossip>>

RecvRead ==
  /\ Running
  /\ \E m \in ReadMsgs, order \in IterOrders(node.broadcast_ids) :
       Step(External(m), run_Read(node, m, order), <<>>)
  /\ UNCHANGED <<from_broadcast, from_gossip, heard>>

RecvGossip ==
  /\ Running
  /\ \E m \in GossipMsgs :
       /\ Step(External(m), run_Gossip(node, m), <<>>)
       /\ from_gossip' = from_gossip \cup Range(m.body.payload.messages)
       /\ heard' = [heard EXCEPT ![m.src] = @ \cup Range(m.body.payload.messages)]
  /\ UNCHANGED from_broadcast

RecvOk ==
  /\ Running
  /\ \E m \in OkMsgs : Step(External(m), run_Ignored(node, m), <<>>)
  /\ UNCHANGED <<from_broadcast, from_gossip, heard>>

Next ==
  \/ Initialize
  \/ RecvTimer
  \/ RecvEof
  \/ RecvInit
  \/ RecvEcho
  \/ RecvGenerate
  \/ RecvBroadcast
  \/ RecvTopology
  \/ RecvRead
  \/ RecvGossip
  \/ RecvOk

Spec == Init /\ [][Next]_vars

\* ------------------------------------------------------------ cluster
\* Every process of the cluster runs the handlers above. The harness sends
\* init to every node before anything else, then topology, broadcast and read
\* requests in any order; each node's ticker fires; the network carries the
\* gossip lines a node writes to the node they are addressed to. No handler
\* reads uniq_msg_id other than to stamp a line, and the network keeps src,
\* dest and messages of a line, so the cluster keeps the counter at 0.
Uncounted(self) == [self EXCEPT !.uniq_msg_id = 0]

\* the gossip lines among `out`, as the network carries them
Lines(out) ==
  {[src |-> out[i].src, dest |-> out[i].dest, messages |-> out[i].body.payload.messages] :
     i \in {j \in 1..Len(out) : out[j].body.payload.type = "gossip"}}

\* every line the network can carry
GossipLines ==
  [src : ClusterNodes, dest : ClusterNodes,
   messages : UNION {IterOrders(S) : S \in (SUBSET ClusterValues) \ {{}}}]

FromHarness(n, payload) == Message("c1", n, Some(1), None, payload)

AllUp == \A n \in ClusterNodes : nodes[n].state # "Uninitialized"
Up(n) == AllUp /\ nodes[n].state = "Initialized"

ClusterStep(n, result) ==
  /\ nodes' = [nodes EXCEPT ![n] = Uncounted(result.self)]
  /\ UNCHANGED <<nodeVars, idVars, busVars>>

ClInit(n) ==
  /\ nodes[n].state = "Uninitialized"
  /\ ClusterStep(n, initialize(nodes[n], External(FromHarness(n, InitMsg(n, ClusterIds)))))
  /\ UNCHANGED <<net, accepted, read_ok>>

ClTopology(n) ==
  /\ Up(n)
  /\ ClusterStep(n, run_Topology(nodes[n], FromHarness(n, Topology(ClusterTopology))))
  /\ UNCHANGED <<net, accepted, read_ok>>

ClBroadcast(n, v) ==
  /\ Up(n)
  /\ ClusterStep(n, run_Broadcast(nodes[n], FromHarness(n, Broadcast(v))))
  /\ accepted' = [accepted EXCEPT ![n] = @ \cup {v}]
  /\ UNCHANGED <<net, read_ok>>

ClRead(n) ==
  /\ Up(n)
  /\ \E order \in IterOrders(nodes[n].broadcast_ids) :
       LET result == run_Read(nodes[n], FromHarness(n, Read), order)
       IN /\ ClusterStep(n, result)
          /\ read_ok' = [node |-> n, messages |-> result.out[1].body.payload.messages]
  /\ UNCHANGED <<net, accepted>>

ClTimer(n) ==
  /\ Up(n)
  /\ \E order \in IterOrders(nodes[n].broadcast_ids) :
       LET result == run_Timer(nodes[n], order)
       IN /\ ClusterStep(n, result)
          /\ net' = net \cup Lines(result.out)
  /\ UNCHANGED <<accepted, read_ok>>

\* the network hands line m to its destination; a process that has panicked
\* reads nothing any more
ClDeliver(m) ==
  /\ m \in net
  /\ net' = net \ {m}
  /\ IF nodes[m.dest].state = "Initialized"
     THEN ClusterStep(m.dest, run_Gossip(nodes[m.dest],
                        Message(m.src, m.dest, Some(0), None, Gossip(m.messages))))
     ELSE UNCHANGED <<nodes, nodeVars, idVars, busVars>>
  /\ UNCHANGED <<accepted, read_ok>>

ClusterNext ==
  \/ \E n \in ClusterNodes : ClInit(n)
  \/ \E n \in ClusterNodes : ClTopology(n)
  \/ \E n \in ClusterNodes, v \in ClusterValues : ClBroadcast(n, v)
  \/ \E n \in ClusterNodes : ClRead(n)
  \/ \E n \in ClusterNodes : ClTimer(n)
  \/ \E m \in GossipLines : ClDeliver(m)

\* the ticker of every node keeps firing (main.rs start_timer), clients keep
\* reading, and the network delivers every line it carries
ClusterFairness ==
  /\ \A n \in ClusterNodes : WF_vars(ClTimer(n)) /\ WF_vars(ClRead(n))
  /\ \A m \in GossipLines : WF_vars(ClDeliver(m))

ClusterSpec == Init /\ [][ClusterNext]_vars /\ ClusterFairness

\* ---------------------------------------------------------------------------
\* two nodes that are each other's neighbour. The harness sends each node its
\* init, then the topology once and each broadcast value at most once, so every
\* run has a last broadcast and a last topology message; the tickers and the
\* network run as in the cluster.

PairIds == <<"n1", "n2">>
PairNodes == Range(PairIds)
PairTopology == [k \in PairNodes |-> IF k = "n1" THEN <<"n2">> ELSE <<"n1">>]

\* every line the network can carry between the two
PairLines ==
  [src : PairNodes, dest : PairNodes,
   messages : UNION {IterOrders(S) : S \in (SUBSET Values) \ {{}}}]

PairUp(n) ==
  /\ \A o \in PairNodes : nodes[o].state # "Uninitialized"
  /\ nodes[n].state = "Initialized"

PrInit(n) ==
  /\ n \in PairNodes
  /\ nodes[n].state = "Uninitialized"
  /\ ClusterStep(n, initialize(nodes[n], External(FromHarness(n, InitMsg(n, PairIds)))))
  /\ UNCHANGED <<net, accepted, read_ok>>

PrTopology(n) ==
  /\ PairUp(n)
  /\ nodes[n].topology # PairTopology
  /\ ClusterStep(n, run_Topology(nodes[n], FromHarness(n, Topology(PairTopology))))
  /\ UNCHANGED <<net, accepted, read_ok>>

PrBroadcast(n, v) ==
  /\ PairUp(n)
  /\ v \notin accepted[n]
  /\ ClusterStep(n, run_Broadcast(nodes[n], FromHarness(n, Broadcast(v))))
  /\ accepted' = [accepted EXCEPT ![n] = @ \cup {v}]
  /\ UNCHANGED <<net, read_ok>>

PrTimer(n) ==
  /\ PairUp(n)
  /\ \E order \in IterOrders(nodes[n].broadcast_ids) :
       LET result == run_Timer(nodes[n], order)
       IN /\ ClusterStep(n, result)
          /\ net' = net \cup Lines(result.out)
  /\ UNCHANGED <<accepted, read_ok>>

PrDeliver(m) ==
  /\ m \in net
  /\ net' = net \ {m}
  /\ IF nodes[m.dest].state = "Initialized"
     THEN ClusterStep(m.dest, run_Gossip(nodes[m.dest],
                        Message(m.src, m.dest, Some(0), None, Gossip(m.messages))))
     ELSE UNCHANGED <<nodes, nodeVars, idVars, busVars>>
  /\ UNCHANGED <<accepted, read_ok>>

PairNext ==
  \/ \E n \in PairNodes : PrInit(n)
  \/ \E n \in PairNodes : PrTopology(n)
  \/ \E n \in PairNodes, v \in Values : PrBroadcast(n, v)
  \/ \E n \in PairNodes : PrTimer(n)
  \/ \E m \in PairLines : PrDeliver(m)

\* both tickers keep firing and the network delivers every line it carries
PairFairness ==
  /\ \A n \in PairNodes : WF_vars(PrTimer(n))
  /\ \A m \in PairLines : WF_vars(PrDeliver(m))

PairSpec == Init /\ [][PairNext]_vars /\ PairFairness

\* ---------------------------------------------------------------------------
\* two nodes answering generate requests, each with its own msg_id counter

IdNodes == {"n1", "n2"}

IdUp(n) == nodes[n].state = "Initialized" /\ nodes[n].uniq_msg_id < MaxMsgId

IdStep(n, result) ==
  /\ nodes' = [nodes EXCEPT ![n] = result.self]
  /\ UNCHANGED <<nodeVars, net, accepted, read_ok, busVars>>

IdInit(n) ==
  /\ nodes[n].state = "Uninitialized"
  /\ IdStep(n, initialize(nodes[n], External(FromHarness(n, InitMsg(n, ClusterIds)))))
  /\ UNCHANGED issued

IdTopology(n) ==
  /\ IdUp(n)
  /\ IdStep(n, run_Topology(nodes[n], FromHarness(n, Topology(ClusterTopology))))
  /\ UNCHANGED issued

IdEcho(n) ==
  /\ IdUp(n)
  /\ IdStep(n, run_Echo(nodes[n], FromHarness(n, Echo("hi"))))
  /\ UNCHANGED issued

IdBroadcast(n) ==
  /\ IdUp(n)
  /\ IdStep(n, run_Broadcast(nodes[n], FromHarness(n, Broadcast(1))))
  /\ UNCHANGED issued

IdTimer(n) ==
  /\ IdUp(n)
  /\ \E order \in IterOrders(nodes[n].broadcast_ids) : IdStep(n, run_Timer(nodes[n], order))
  /\ UNCHANGED issued

IdGenerate(n) ==
  /\ IdUp(n)
  /\ LET result == run_Generate(nodes[n], FromHarness(n, Generate))
     IN /\ IdStep(n, result)
        /\ issued' = Append(issued, [node |-> nodes[n].node_id,
                                     counter |-> nodes[n].uniq_msg_id,
                                     id |-> result.out[1].body.payload.id])

IdNext ==
  \E n \in IdNodes :
    \/ IdInit(n)
    \/ IdTopology(n)
    \/ IdEcho(n)
    \/ IdBroadcast(n)
    \/ IdTimer(n)
    \/ IdGenerate(n)

IdSpec == Init /\ [][IdNext]_vars

\* ---------------------------------------------------------------------------
\* the process: main with the node loop, the reader and the ticker on one bus

\* the lines stdin can hold
StdinLines == {FromHarness(Self, p) : p \in {InitMsg(Self, ClusterIds), Topology(Line),
                                              Broadcast(1), Read}}

\* the process is gone once main has returned or panicked
Alive == pc.main \in {"node", "join_io", "join_timer"}

\* Sender::send: the event joins the queue while the Receiver exists
send(ev) ==
  IF rx = "open"
  THEN bus' = Append(bus, ev) /\ enqueued' = Append(enqueued, ev)
  ELSE UNCHANGED <<bus, enqueued>>

\* start_io_loop, read_line returned a line that parses
IoLine ==
  /\ Alive
  /\ pc.io_loop = "reading"
  /\ lines_read < MaxLines
  /\ \E m \in StdinLines : send(External(m))
  /\ lines_read' = lines_read + 1
  /\ UNCHANGED <<nodeVars, clusterVars, idVars, rx, pc, ticks_sent, processed>>

\* start_io_loop, read_line returned Ok(0)
IoEof ==
  /\ Alive
  /\ pc.io_loop = "reading"
  /\ send(Internal(Eof))
  /\ pc' = [pc EXCEPT !.io_loop = "done"]
  /\ UNCHANGED <<nodeVars, clusterVars, idVars, rx, lines_read, ticks_sent, processed>>

\* start_timer, one turn of the loop
TimerWakeup ==
  /\ Alive
  /\ pc.timer = "sleeping"
  /\ IF rx = "open"
     THEN /\ ticks_sent < MaxTicks
          /\ send(Internal(Timer))
          /\ ticks_sent' = ticks_sent + 1
          /\ UNCHANGED pc
     ELSE /\ pc' = [pc EXCEPT !.timer = "done"]
          /\ UNCHANGED <<bus, enqueued, ticks_sent>>
  /\ UNCHANGED <<nodeVars, clusterVars, idVars, rx, lines_read, processed>>

\* main, node.initialize()?.run()?: one recv and its handling; a panic unwinds
\* main, which drops the Node with its Receiver
NodeRecv ==
  /\ pc.main = "node"
  /\ node.state \in {"Uninitialized", "Initialized"}
  /\ bus # <<>>
  /\ LET ev == Head(bus)
     IN /\ \E order \in IterOrders(node.broadcast_ids) :
             LET result == IF node.state = "Uninitialized"
                           THEN initialize(node, ev)
                           ELSE run(node, ev, order)
             IN /\ Received(ev, result, <<>>)
                /\ IF result.self.state = "Aborted"
                   THEN /\ pc' = [pc EXCEPT !.main = "panicked"]
                        /\ rx' = "dropped"
                        /\ bus' = <<>>
                   ELSE /\ bus' = Tail(bus)
                        /\ UNCHANGED <<pc, rx>>
        /\ processed' = Append(processed, ev)
  /\ UNCHANGED <<from_broadcast, from_gossip, heard, clusterVars, idVars, lines_read,
                 ticks_sent, enqueued>>

\* main, end of the statement node.initialize()?.run()?: the temporary Node is
\* dropped, and the Receiver and what is still queued with it
NodeDropped ==
  /\ pc.main = "node"
  /\ node.state = "Terminated"
  /\ rx' = "dropped"
  /\ bus' = <<>>
  /\ pc' = [pc EXCEPT !.main = "join_io"]
  /\ UNCHANGED <<nodeVars, clusterVars, idVars, lines_read, ticks_sent, enqueued, processed>>

\* main, io_loop.join()
JoinIoLoop ==
  /\ pc.main = "join_io"
  /\ pc.io_loop = "done"
  /\ pc' = [pc EXCEPT !.main = "join_timer"]
  /\ UNCHANGED <<nodeVars, clusterVars, idVars, bus, rx, lines_read, ticks_sent, enqueued,
                 processed>>

\* main, timer.join() and the return
JoinTimer ==
  /\ pc.main = "join_timer"
  /\ pc.timer = "done"
  /\ pc' = [pc EXCEPT !.main = "exit"]
  /\ UNCHANGED <<nodeVars, clusterVars, idVars, bus, rx, lines_read, ticks_sent, enqueued,
                 processed>>

BusNext ==
  \/ IoLine
  \/ IoEof
  \/ TimerWakeup
  \/ NodeRecv
  \/ NodeDropped
  \/ JoinIoLoop
  \/ JoinTimer

BusSpec == Init /\ [][BusNext]_vars

\* the scheduler runs every thread that can take a step: main at its recv, at
\* the drop of the Node and at its joins, the ticker at the end of its sleep;
\* when stdin delivers a line or ends is up to the environment
BusFairness ==
  /\ WF_vars(NodeRecv)
  /\ WF_vars(NodeDropped)
  /\ WF_vars(JoinIoLoop)
  /\ WF_vars(JoinTimer)
  /\ WF_vars(TimerWakeup)

ProcessSpec == Init /\ [][BusNext]_vars /\ BusFairness

\* ------------------------------------------------------- vocabulary
\* the last event was taken by run() and was the internal event `payload`
RanInternal(payload) ==
  receiver = "run" /\ event.kind = "Internal" /\ event.payload = payload

\* the last event was taken by run() and was an external message of type `type`
RanExternal(type) ==
  receiver = "run" /\ event.kind = "External" /\ event.message.body.payload.type = type

\* the gossip lines among the lines of the last event that went to `dest`
GossipTo(dest) ==
  {i \in 1..Len(output) : output[i].body.payload.type = "gossip" /\ output[i].dest = dest}

\* the neighbours the node gossips to
Neighbours ==
  IF node.node_id \in DOMAIN node.topology THEN Range(node.topology[node.node_id]) ELSE {}

\* the last event wrote exactly one line: the reply `payload` to the request
RepliedWith(payload) ==
  /\ Len(output) = 1
  /\ output[1] = Message(node.node_id, event.message.src,
                         output[1].body.msg_id, event.message.body.msg_id, payload)

\* -------------------------------------------------------- properties

\* C2: monotonic growth. Whatever event an initialized node processes, the
\* Broadcast Set after the event contains the Broadcast Set before it.
C2_MonotonicGrowth ==
  [][node.state = "Initialized" => node.broadcast_ids \subseteq node'.broadcast_ids]_vars

\* a topology message was processed while the Broadcast Set had members
C2_Witness ==
  /\ RanExternal("topology")
  /\ node.broadcast_ids = Values

\* C3: no redundant gossip. A gossip line written on a Tick to neighbour D
\* carries no value that D has gossiped to this node since the last topology
\* message.
C3_NoRedundantGossip ==
  RanInternal(Timer) =>
    \A i \in 1..Len(output) :
      output[i].body.payload.type = "gossip" =>
        Range(output[i].body.payload.messages) \cap heard[output[i].dest] = {}

\* a Tick gossiped to a neighbour that had itself gossiped another value
C3_Witness ==
  /\ RanInternal(Timer)
  /\ \E d \in NodeIds : heard[d] # {} /\ GossipTo(d) # {}

\* C5: message id monotonicity. The k-th line the node writes (k = 0, 1, ...)
\* carries msg_id k.
C5_MsgIdIsLineNumber ==
  \A i \in 1..Len(output) :
    output[i].body.msg_id = Some(written - Len(output) + i - 1)

\* a Tick wrote two gossip lines after the init_ok and two replies
C5_Witness ==
  /\ RanInternal(Timer)
  /\ Len(output) >= 2
  /\ written >= 5

\* C7: read result. A read_ok lists each member of the Broadcast Set once and
\* nothing else, and the Broadcast Set is the union of the values received in
\* broadcast requests and in gossip messages.
C7_ReadResult ==
  RanExternal("read") =>
    /\ Len(output) = 1
    /\ output[1].body.payload.type = "read_ok"
    /\ Range(output[1].body.payload.messages) = node.broadcast_ids
    /\ node.broadcast_ids = from_broadcast \cup from_gossip
    /\ Len(output[1].body.payload.messages) = Cardinality(node.broadcast_ids)

\* a read returned one value that came by broadcast and one that came by gossip
C7_Witness ==
  /\ RanExternal("read")
  /\ from_broadcast # {}
  /\ from_gossip \ from_broadcast # {}
  /\ Len(output[1].body.payload.messages) = 2

\* the values an external message carries into the Broadcast Set
Carried(message) ==
  CASE message.body.payload.type = "broadcast" -> {message.body.payload.value}
    [] message.body.payload.type = "gossip" -> Range(message.body.payload.messages)
    [] OTHER -> {}

\* C8: idempotent insertion. A broadcast or gossip whose values are all in the
\* Broadcast Set leaves it unchanged, and the Broadcast Set is the set of the
\* distinct values delivered, however often and by whichever path they came.
C8_IdempotentInsertion ==
  [][/\ (/\ node.state = "Initialized"
         /\ event'.kind = "External"
         /\ event'.message.body.payload.type \in {"broadcast", "gossip"}
         /\ Carried(event'.message) \subseteq node.broadcast_ids)
        => node'.broadcast_ids = node.broadcast_ids
     /\ node'.state = "Initialized"
        => node'.broadcast_ids = from_broadcast' \cup from_gossip']_vars

\* a value that had come by broadcast and by gossip was gossiped once more
\* while the Broadcast Set held a second value
C8_Witness ==
  /\ RanExternal("gossip")
  /\ node.state = "Initialized"
  /\ event.message.body.payload.messages # <<>>
  /\ Range(event.message.body.payload.messages) \subseteq from_broadcast
  /\ node.broadcast_ids = Values

\* C9: topology replacement resets knowledge. After a topology message the
\* Topology is the received mapping, topology_ok was replied, and Known-Ids has
\* exactly the keys of the new topology other than self, each with an empty set.
C9_TopologyResetsKnowledge ==
  RanExternal("topology") =>
    /\ node.state = "Initialized"
    /\ node.topology = event.message.body.payload.topology
    /\ RepliedWith(TopologyOk)
    /\ DOMAIN node.known_ids = (DOMAIN node.topology) \ {node.node_id}
    /\ \A d \in DOMAIN node.known_ids : node.known_ids[d] = {}

\* a topology naming self was installed after gossip had been recorded
C9_Witness ==
  /\ RanExternal("topology")
  /\ from_gossip # {}
  /\ node.node_id \in DOMAIN node.topology
  /\ DOMAIN node.known_ids # {}

\* C4: tick algorithm. A Tick with an empty Broadcast Set writes nothing;
\* otherwise it writes, for every neighbour d of topology[self], one gossip
\* line carrying BroadcastSet minus KnownIds[d] when that is non-empty and no
\* line when it is empty; every line of a Tick is a gossip without in_reply_to.
C4_TickAlgorithm ==
  RanInternal(Timer) =>
    /\ \A i \in 1..Len(output) :
         /\ output[i].body.payload.type = "gossip"
         /\ output[i].body.in_reply_to = None
         /\ output[i].dest \in Neighbours
    /\ node.broadcast_ids = {} => output = <<>>
    /\ node.broadcast_ids # {} =>
         \A d \in Neighbours :
           /\ d \in DOMAIN node.known_ids
           /\ LET pend == node.broadcast_ids \ node.known_ids[d]
              IN IF pend = {} THEN GossipTo(d) = {}
                 ELSE /\ Cardinality(GossipTo(d)) = 1
                      /\ \A i \in GossipTo(d) :
                           Range(output[i].body.payload.messages) = pend

\* the neighbours the Timer arm computed a pending list for
Reached ==
  IF node.node_id \in DOMAIN node.topology
  THEN Range(reached(node, node.topology[node.node_id])) ELSE {}

C10_GossipReceipt ==
  [][(/\ node.state = "Initialized"
      /\ event'.kind = "External"
      /\ event'.message.body.payload.type = "gossip")
     => LET S == event'.message.src
            vals == Range(event'.message.body.payload.messages)
        IN /\ node'.broadcast_ids = node.broadcast_ids \cup vals
           /\ S \in DOMAIN node'.known_ids
           /\ vals \subseteq node'.known_ids[S]
           /\ DOMAIN node'.known_ids = DOMAIN node.known_ids
           /\ \A d \in (DOMAIN node.known_ids) \ {S} : node'.known_ids[d] = node.known_ids[d]
           /\ node'.topology = node.topology
           /\ node'.uniq_msg_id = node.uniq_msg_id
           /\ output' = <<>>
           /\ written' = written]_vars

\* the nodes a gossip started at node a can come to along the edges of `topology`
RECURSIVE Closure(_, _)
Closure(topology, S) ==
  LET T == S \cup UNION {Range(topology[n]) : n \in S \cap DOMAIN topology}
  IN IF T = S THEN S ELSE Closure(topology, T)

ReachableFrom(a) == Closure(ClusterTopology, {a})

\* C1: gossip convergence. With tickers that keep firing, a network that
\* delivers every gossip line and clients that keep reading, a value for which
\* node a answered broadcast_ok is eventually in a read_ok of every node b
\* that the topology reaches from a.
C1_GossipConvergence ==
  \A a \in ClusterNodes : \A b \in ReachableFrom(a) : \A v \in ClusterValues :
    (v \in accepted[a]) ~> (read_ok.node = b /\ v \in Range(read_ok.messages))

\* the reply type of each request type
OkType(type) ==
  CASE type = "echo" -> "echo_ok"
    [] type = "generate" -> "generate_ok"
    [] type = "broadcast" -> "broadcast_ok"
    [] type = "read" -> "read_ok"
    [] type = "topology" -> "topology_ok"

RequestTypes == {"echo", "generate", "broadcast", "read", "topology"}
OkTypes == {"init_ok", "echo_ok", "generate_ok", "broadcast_ok", "read_ok", "topology_ok"}

\* C11: reply correlation. For every echo, generate, broadcast, read and
\* topology request that run processes, the node writes exactly one line: the
\* matching *_ok, from this node to the request's src, with in_reply_to equal to
\* the request's msg_id.
C11_ReplyCorrelation ==
  \A type \in RequestTypes :
    RanExternal(type) =>
      /\ Len(output) = 1
      /\ output[1].body.payload.type = OkType(type)
      /\ output[1].body.in_reply_to = event.message.body.msg_id
      /\ output[1].dest = event.message.src
      /\ output[1].src = node.node_id
      /\ node.node_id = Self

\* a read that carried a msg_id was answered after another reply had gone out
C11_Witness ==
  /\ RanExternal("read")
  /\ event.message.body.msg_id = Some(1)
  /\ output[1].body.in_reply_to = Some(1)
  /\ written >= 3

\* C13: init handshake. A node whose first event is an init adopts node_id and
\* node_ids, writes exactly one init_ok from the new node_id to the init's src
\* with in_reply_to equal to the init's msg_id, and is Initialized.
C13_InitHandshake ==
  (receiver = "initialize" /\ event.kind = "External"
     /\ event.message.body.payload.type = "init") =>
    /\ node.state = "Initialized"
    /\ node.node_id = event.message.body.payload.node_id
    /\ node.cluster = event.message.body.payload.node_ids
    /\ written = 1
    /\ output = <<Message(event.message.body.payload.node_id, event.message.src,
                          output[1].body.msg_id, event.message.body.msg_id, InitOk)>>

\* an init that carried a msg_id was answered
C13_Witness ==
  /\ receiver = "initialize"
  /\ node.state = "Initialized"
  /\ event.message.body.msg_id = Some(1)
  /\ output[1].body.in_reply_to = Some(1)

\* C14: unsolicited *_ok messages are ignored. Processing one writes nothing
\* and leaves the whole node (node_id, cluster, Topology, Broadcast Set,
\* Known-Ids, msg_id counter) as it was.
C14_OkIgnored ==
  [][(/\ node.state = "Initialized"
      /\ event'.kind = "External"
      /\ event'.message.body.payload.type \in OkTypes)
     => /\ node' = node
        /\ output' = <<>>
        /\ written' = written]_vars

\* a read_ok arrived at a node that held values and recorded knowledge
C14_Witness ==
  /\ RanExternal("read_ok")
  /\ node.broadcast_ids # {}
  /\ \E d \in DOMAIN node.known_ids : node.known_ids[d] # {}

\* the members of a list other than x, in their order
Others(list, x) == SelectSeq(list, LAMBDA y : y # x)

\* C15: init seeding. Right after the handshake the Topology has the single
\* entry self -> the cluster members other than self, and Known-Ids has one
\* empty set for each cluster member other than self.
C15_InitSeeding ==
  (receiver = "initialize" /\ node.state = "Initialized") =>
    /\ node.topology = [k \in {node.node_id} |-> Others(node.cluster, node.node_id)]
    /\ node.known_ids = [d \in Range(node.cluster) \ {node.node_id} |-> {}]

\* C16: missing-entry unreachability. An initialized node always has a
\* Topology entry for itself and a Known-Ids entry for every neighbour of that
\* entry, and no Tick ends in the abort.
C16_NoMissingEntry ==
  /\ node.state = "Initialized" =>
       /\ node.node_id \in DOMAIN node.topology
       /\ \A d \in Neighbours : d \in DOMAIN node.known_ids
  /\ RanInternal(Timer) => node.state # "Aborted"

\* C17: topology self-entry. After initialization, whatever topology messages
\* were processed, the Topology has a key equal to the node's own id.
C17_TopologySelfEntry ==
  node.state \in {"Initialized", "Terminated"} => node.node_id \in DOMAIN node.topology

\* C18: init is accepted exactly once and only first. A first event other than
\* an init aborts the node, an init received by run aborts the node, and
\* neither writes a line.
C18_InitOnceAndFirst ==
  /\ (receiver = "initialize"
        /\ ~(event.kind = "External" /\ event.message.body.payload.type = "init")) =>
       /\ node.state = "Aborted"
       /\ output = <<>>
       /\ written = 0
  /\ RanExternal("init") =>
       /\ node.state = "Aborted"
       /\ output = <<>>

\* a second init reached a node that had answered a request
C18_Witness ==
  /\ RanExternal("init")
  /\ written >= 2

\* the (neighbour, pending values) pairs of a list of gossip lines
Sent(out) == {<<out[i].dest, Range(out[i].body.payload.messages)>> : i \in 1..Len(out)}

\* C19: sending gossip has no effect on knowledge. A Tick leaves Known-Ids, the
\* Broadcast Set and the Topology unchanged and advances the msg_id counter by
\* the number of gossip lines it wrote; a Tick processed right after a Tick
\* sends the same set of (neighbour, pending values) gossip messages.
C19_TickFrame ==
  [][(/\ node.state = "Initialized"
      /\ event'.kind = "Internal"
      /\ event'.payload = Timer)
     => /\ node'.known_ids = node.known_ids
        /\ node'.broadcast_ids = node.broadcast_ids
        /\ node'.topology = node.topology
        /\ node'.uniq_msg_id = node.uniq_msg_id + Len(output')
        /\ \A i \in 1..Len(output') : output'[i].body.payload.type = "gossip"
        /\ (backlog >= 1 /\ node'.state = "Initialized") => Sent(output') = Sent(output)]_vars

\* a second Tick in a row sent gossip again
C19_Witness ==
  /\ RanInternal(Timer)
  /\ backlog = 2
  /\ node.state = "Initialized"
  /\ output # <<>>

FirstEof(events) ==
  IF \E i \in 1..Len(events) : events[i] = Internal(Eof)
  THEN CHOOSE i \in 1..Len(events) :
         /\ events[i] = Internal(Eof)
         /\ \A j \in 1..(i - 1) : events[j] # Internal(Eof)
  ELSE 0

\* C20: Eof ordering. The node loop processes the events in the order they
\* were enqueued, skipping none. Processing the Eof moves the node to
\* Terminated; at that point every event enqueued ahead of the Eof has been
\* processed, and from then on no event is processed and no line is written,
\* whatever was enqueued after the Eof.
C20_EofOrdering ==
  /\ [](/\ Len(processed) <= Len(enqueued)
        /\ processed = SubSeq(enqueued, 1, Len(processed))
        /\ (rx = "open" => bus = SubSeq(enqueued, Len(processed) + 1, Len(enqueued)))
        /\ (processed # <<>> /\ receiver = "run"
              /\ processed[Len(processed)] = Internal(Eof)) => node.state = "Terminated"
        /\ node.state = "Terminated" =>
             /\ FirstEof(enqueued) = Len(processed)
             /\ processed = SubSeq(enqueued, 1, FirstEof(enqueued)))
  /\ [][node.state = "Terminated" =>
          /\ processed' = processed
          /\ node' = node
          /\ written' = written]_vars

\* the loop ended on the Eof after a Tick and two lines, with a later Tick
\* left on the bus
C20_Witness ==
  /\ node.state = "Terminated"
  /\ Len(processed) >= 4
  /\ \E i \in 1..Len(processed) : processed[i] = Internal(Timer)
  /\ Len(enqueued) > Len(processed)
  /\ enqueued[Len(enqueued)] = Internal(Timer)
  /\ written >= 2

\* C23: gossip from a peer never aborts the node. Processing a gossip whose src
\* is a cluster member other than the node itself finds a Known-Ids entry for
\* the sender and completes, before the first topology message and after any.
C23_PeerGossipCompletes ==
  (RanExternal("gossip") /\ event.message.src \in Range(node.cluster) \ {node.node_id}) =>
    /\ node.state = "Initialized"
    /\ event.message.src \in DOMAIN node.known_ids

\* C25: Known-Ids is bounded by the Broadcast Set. In every state of an
\* initialized node, every Known-Ids entry is a subset of the Broadcast Set.
C25_KnownWithinBroadcastSet ==
  node.state = "Initialized" =>
    \A d \in DOMAIN node.known_ids : node.known_ids[d] \subseteq node.broadcast_ids

\* a topology message reset the entries after a peer's gossip had filled one,
\* and a later gossip filled an entry again
C25_Witness ==
  /\ RanExternal("gossip")
  /\ node.state = "Initialized"
  /\ written >= 3
  /\ \E d \in DOMAIN node.known_ids : node.known_ids[d] # {}
  /\ \E d \in DOMAIN node.known_ids : node.known_ids[d] # node.broadcast_ids

\* the first line the reader put on the bus is an init
FirstLineIsInit ==
  \E i \in 1..Len(enqueued) :
    /\ enqueued[i].kind = "External"
    /\ enqueued[i].message.body.payload.type = "init"
    /\ \A j \in 1..(i - 1) : enqueued[j].kind = "Internal"

\* C22: initialization is independent of ticker interleaving. When the first
\* line on stdin is a valid init, the first receive of the node ends with the
\* node Initialized and the init_ok written, wherever the ticker's events fall
\* on the bus.
C22_InitWhateverTheTicker ==
  (FirstLineIsInit /\ processed # <<>>) =>
    /\ written >= 1
    /\ receiver = "initialize" => node.state = "Initialized"

\* no init waits on the bus
NoInitQueued ==
  \A i \in 1..Len(bus) :
    bus[i].kind = "External" => bus[i].message.body.payload.type # "init"

\* C21: shutdown terminates. Once stdin has ended after a successful init, with
\* the Eof on the bus and no second init ahead of it, the node loop receives the
\* Eof and returns, the Receiver is dropped, the ticker's next send fails and
\* the ticker exits, both joins complete and main returns.
C21_ShutdownTerminates ==
  (pc.io_loop = "done" /\ rx = "open" /\ node.state = "Initialized" /\ NoInitQueued)
    ~> (pc.main = "exit" /\ pc.timer = "done")

\* a Tick at node a would put value v in a gossip to b
WouldSend(a, b, v) ==
  /\ nodes[a].state = "Initialized"
  /\ b \in DOMAIN nodes[a].known_ids
  /\ \E order \in IterOrders(nodes[a].broadcast_ids) :
       v \in Range(pending(nodes[a], b, order))

\* b has taken value v from a gossip of a
GossipedTo(a, b, v) ==
  /\ nodes[a].state = "Initialized"
  /\ nodes[b].state = "Initialized"
  /\ nodes[a].topology = PairTopology
  /\ nodes[b].topology = PairTopology
  /\ v \in nodes[a].broadcast_ids
  /\ v \in nodes[b].known_ids[a]

\* C24: gossip quiescence in a bidirectional topology. For two nodes that are
\* each other's neighbour, once A has gossiped V to B and B has taken it, the
\* system comes to a state from which no Tick at A sends V to B again.
C24_GossipQuiescence ==
  \A a \in PairNodes : \A b \in PairNodes \ {a} : \A v \in Values :
    GossipedTo(a, b, v) ~> [](~WouldSend(a, b, v))
====
